---- MODULE Spec2Model ----
(***************************************************************************)
(* ProjectAlpaca: backend.Asset (price download, risk metrics, news        *)
(* normalisation) and the Streamlit dashboard script main.py.              *)
(*                                                                         *)
(* Numbers.  pandas/numpy floats are modelled exactly: a float is either   *)
(* NaN, an infinity, or a real number q * sqrt(r) with q, r rational       *)
(* (r = 1 for every value that is not a standard deviation).  A rational   *)
(* is a reduced pair <<n, d>> with d > 0.                                  *)
(*                                                                         *)
(* Dates are day numbers.  The trading days the provider knows are         *)
(* 1..MaxDate, "today" is the day after the last trading day.              *)
(***************************************************************************)
EXTENDS Integers, Sequences, FiniteSets, TLC

VARIABLES
    proc,         \* which program the process runs: a client of Asset's
                  \* price methods, a client of Asset.get_news, or main.py
    stock_data,   \* Asset.stock_data: a price frame
    market_data,  \* Asset.market_data
    last,         \* the Asset method called last ("__init__" after construction)
    data,         \* the local `data` of the last calculate_risk_metrics call
    ret,          \* what the last Asset call returned
    exc,          \* the exception the last call / script run raised ("" if none)
    divided,      \* the zero-divisor divisions the last call performed
    raw_news,     \* yf.Ticker(...).news as the provider returned it
    limit,        \* the `limit` argument of the last get_news call
    ticker,       \* main.py widget: Ticker Symbol (already upper-cased)
    shares,       \* main.py widget: Number of Shares
    date_range,   \* main.py widget: Analysis Period, a tuple of 0..2 dates
    run_btn,      \* main.py widget: Run Analysis was clicked in this run
    fetch,        \* the (start, end) window of the last yf.download, if any
    dl,           \* the frame yf.download returned in this run
    screen        \* what the right card shows after the run

vars == <<proc, stock_data, market_data, last, data, ret, exc, divided, raw_news,
          limit, ticker, shares, date_range, run_btn, fetch, dl, screen>>

dashVars == <<ticker, shares, date_range, run_btn, dl, screen>>

---------------------------------------------------------------------------
(* Bounds of the model *)

MaxDate == 4      \* trading days 1..MaxDate
MaxNews == 4      \* longest provider news list

Closes == {1, 2}  \* close prices a bar may carry (positive)

Dates == 1..MaxDate

---------------------------------------------------------------------------
(* Exact arithmetic *)

Abs(a) == IF a < 0 THEN -a ELSE a

RECURSIVE GCD(_, _)
GCD(a, b) == IF b = 0 THEN a ELSE GCD(b, a % b)

\* the reduced fraction n/d (d # 0)
Rat(n, d) ==
    LET g == GCD(Abs(n), Abs(d))
        s == IF d < 0 THEN -1 ELSE 1
    IN  <<(s * n) \div g, (s * d) \div g>>

RZero == <<0, 1>>
ROne  == <<1, 1>>
RAdd(x, y) == Rat(x[1] * y[2] + y[1] * x[2], x[2] * y[2])
RSub(x, y) == Rat(x[1] * y[2] - y[1] * x[2], x[2] * y[2])
RMul(x, y) == Rat(x[1] * y[1], x[2] * y[2])
RDiv(x, y) == Rat(x[1] * y[2], x[2] * y[1])

(* Floats: NaN, +-inf, or q * sqrt(r) *)
NaN == [k |-> "nan"]
Inf == [k |-> "inf"]
Num(q) == [k |-> "num", q |-> q, r |-> ROne]
Surd(q, r) == IF q = RZero \/ r = RZero THEN Num(RZero)
              ELSE [k |-> "num", q |-> q, r |-> r]

IsNaN(x)  == x.k = "nan"
IsNum(x)  == x.k = "num"
IsZero(x) == x.k = "num" /\ x.q = RZero

\* Python `x != 0`: NaN compares unequal to everything
NeZero(x) == ~IsZero(x)

\* float64 division (numpy scalars do not raise on a zero divisor)
FDiv(x, y) ==
    IF IsNaN(x) \/ IsNaN(y) THEN NaN
    ELSE IF x.k = "inf" THEN (IF y.k = "inf" THEN NaN ELSE Inf)
    ELSE IF y.k = "inf" THEN Num(RZero)
    ELSE IF IsZero(y) THEN (IF IsZero(x) THEN NaN ELSE Inf)
    ELSE Surd(RDiv(x.q, y.q), RDiv(x.r, y.r))

FMul(x, y) ==
    IF IsNaN(x) \/ IsNaN(y) THEN NaN
    ELSE IF x.k = "inf" \/ y.k = "inf"
         THEN (IF IsZero(x) \/ IsZero(y) THEN NaN ELSE Inf)
    ELSE Surd(RMul(x.q, y.q), RMul(x.r, y.r))

\* subtraction of values that are not standard deviations (r = 1)
FSub(x, y) ==
    IF IsNaN(x) \/ IsNaN(y) THEN NaN
    ELSE IF x.k = "inf" \/ y.k = "inf" THEN (IF x.k = y.k THEN NaN ELSE Inf)
    ELSE Num(RSub(x.q, y.q))

\* sqrt of a non-negative value that is not a standard deviation
FSqrt(x) ==
    IF IsNaN(x) THEN NaN
    ELSE IF x.k = "inf" THEN Inf
    ELSE Surd(ROne, x.q)

---------------------------------------------------------------------------
(* pandas.  A price frame is [multi, bars]: whether its columns are a        *)
(* MultiIndex, and its rows, a sequence of bars [date, close] with strictly *)
(* increasing dates.  A Series is a sequence of [date, v]; the aligned      *)
(* frame is a sequence of rows [date, Stock, Market].                       *)

\* pd.DataFrame()
EmptyFrame == [multi |-> FALSE, bars |-> <<>>]

\* DataFrame.empty
IsEmpty(df) == Len(df.bars) = 0

\* df.columns = df.columns.droplevel(1) when the columns are a MultiIndex
droplevel(df) == IF df.multi THEN [df EXCEPT !.multi = FALSE] ELSE df

\* the increasing sequence of the elements of a set of dates
RECURSIVE SortedSeq(_)
SortedSeq(S) ==
    IF S = {} THEN <<>>
    ELSE LET m == CHOOSE x \in S : \A y \in S : x <= y
         IN  <<m>> \o SortedSeq(S \ {m})

\* every sequence of daily bars over the trading days D
PriceSeries(D) ==
    UNION { LET sd == SortedSeq(ds)
            IN  { [i \in 1..Len(sd) |-> [date |-> sd[i], close |-> cs[i]]] :
                  cs \in [1..Len(sd) -> Closes] } : ds \in SUBSET D }

\* df['Close'] of a frame with flat columns
Close(df) ==
    [i \in 1..Len(df.bars) |->
        [date |-> df.bars[i].date, v |-> Num(<<df.bars[i].close, 1>>)]]

\* pct_change with the first row filled with 0 instead of NaN
pct_change_FillFirst(s) ==
    [i \in 1..Len(s) |->
        [date |-> s[i].date,
         v    |-> IF i = 1 THEN Num(RZero)
                  ELSE FSub(FDiv(s[i].v, s[i-1].v), Num(ROne))]]

\* Series.pct_change(): NaN for the first row, then c[i] / c[i-1] - 1
pct_change(s) ==
    [i \in 1..Len(s) |->
        [date |-> s[i].date,
         v    |-> IF i = 1 THEN NaN
                  ELSE FSub(FDiv(s[i].v, s[i-1].v), Num(ROne))]]

NotNaN(row) == ~IsNaN(row.v)

\* Series.dropna()
dropna(s) == SelectSeq(s, NotNaN)

Index(s) == {s[i].date : i \in 1..Len(s)}

\* the value of a Series at a label, NaN where the label is missing
At(s, d) ==
    IF d \in Index(s) THEN s[CHOOSE i \in 1..Len(s) : s[i].date = d].v ELSE NaN

\* the index of pd.concat([a, b], axis=1): the union of the two indexes.
\* Whether pandas sorts it depends on its version; unsorted, it is a's labels
\* followed by b's labels that a lacks.
UnionIndex(a, b, sorted) ==
    IF sorted THEN SortedSeq(Index(a) \cup Index(b))
    ELSE LET new(row) == row.date \notin Index(a)
             tail == SelectSeq(b, new)
         IN  [i \in 1..Len(a) |-> a[i].date] \o [i \in 1..Len(tail) |-> tail[i].date]

\* pd.concat([a, b], axis=1) with columns renamed Stock / Market
concat(a, b, sorted) ==
    LET idx == UnionIndex(a, b, sorted)
    IN  [i \in 1..Len(idx) |->
            [date |-> idx[i], Stock |-> At(a, idx[i]), Market |-> At(b, idx[i])]]

BothPresent(row) == ~IsNaN(row.Stock) /\ ~IsNaN(row.Market)

\* DataFrame.dropna(): drop every row holding a NaN
dropna_rows(df) == SelectSeq(df, BothPresent)

RECURSIVE RSum(_)
RSum(xs) == IF Len(xs) = 0 THEN RZero ELSE RAdd(Head(xs), RSum(Tail(xs)))

\* the rational values of a column of the aligned frame (no NaN is left in it)
Col(df, c) == [i \in 1..Len(df) |-> IF c = "Stock" THEN df[i].Stock.q ELSE df[i].Market.q]

\* Series.mean(): NaN for an empty Series
mean(xs) ==
    IF Len(xs) = 0 THEN NaN ELSE Num(RDiv(RSum(xs), <<Len(xs), 1>>))

\* the sum of the products of the deviations from the means mx, my
SumOfProducts(xs, ys, mx, my) ==
    RSum([i \in 1..Len(xs) |-> RMul(RSub(xs[i], mx), RSub(ys[i], my))])

\* Series.cov(other): sample covariance (ddof = 1), NaN below 2 observations
cov(xs, ys) ==
    IF Len(xs) < 2 THEN NaN
    ELSE Num(RDiv(SumOfProducts(xs, ys, mean(xs).q, mean(ys).q),
                  <<Len(xs) - 1, 1>>))

\* Series.var(): sample variance (ddof = 1), NaN below 2 observations
var(xs) == cov(xs, xs)

\* Series.std()
std(xs) == FSqrt(var(xs))

---------------------------------------------------------------------------
(* The market-data provider (yfinance) *)

Today == MaxDate + 1

\* main.py line 41: timedelta(days=365)
TrailingDays == 365

\* two-bar histories with closes 100 -> 110 and 50 -> 55 (+10% each)
TenPercentUp ==
    { <<[date |-> 1, close |-> 100], [date |-> 2, close |-> 110]>>,
      <<[date |-> 1, close |-> 50],  [date |-> 2, close |-> 55]>> }

\* the bar sequences the provider may hold for the trading days D
Histories(D) == PriceSeries(D) \cup {h \in TenPercentUp : {1, 2} \subseteq D}

\* yf.download(symbol, start, end): daily bars of the trading days in
\* [start, end), none for an unknown symbol.  Whether the columns come back
\* as a MultiIndex (mi) depends on the installed yfinance.
download(start, end, mi) ==
    { [multi |-> mi, bars |-> b] :
        b \in Histories({d \in Dates : start <= d /\ d < end}) }

---------------------------------------------------------------------------
(* backend.Asset *)

None == [kind |-> "None"]

\* lines 43 and 47: trading days per year
TradingDays == 252

\* NoData with the check of the stock frame left out
NoData_MarketOnly(stock, market) == IsEmpty(market)

\* line 26: the early return
NoData(stock, market) == IsEmpty(stock) \/ IsEmpty(market)

\* lines 30-35: daily returns of both frames, aligned on date
Aligned(stock, market, sorted) ==
    LET stock_returns  == dropna(pct_change(Close(stock)))
        market_returns == dropna(pct_change(Close(market)))
    IN  dropna_rows(concat(stock_returns, market_returns, sorted))

\* BetaGuard with the zero test lost: the division always runs
BetaGuard_Always(market_variance) == TRUE

\* line 40: the condition guarding the division by the market variance
BetaGuard(market_variance) == NeZero(market_variance)

\* SharpeGuard with the zero test lost: the division always runs
SharpeGuard_Always(volatility) == TRUE

\* line 48: the condition guarding the division by the volatility
SharpeGuard(volatility) == NeZero(volatility)

\* line 40
Beta(covariance, market_variance) ==
    IF BetaGuard(market_variance)
    THEN FDiv(covariance, market_variance)
    ELSE Num(ROne)

\* line 43
Volatility(stock_std) ==
    FMul(FMul(stock_std, FSqrt(Num(<<TradingDays, 1>>))), Num(<<100, 1>>))

\* lines 46-47
ExcessReturn(stock_mean) ==
    LET risk_free_rate == Num(<<4, 100>>)
    IN  FSub(FMul(stock_mean, Num(<<TradingDays, 1>>)), risk_free_rate)

\* line 48
Sharpe(excess_return, volatility) ==
    IF SharpeGuard(volatility)
    THEN FDiv(excess_return, FDiv(volatility, Num(<<100, 1>>)))
    ELSE Num(RZero)

\* lines 40, 48 and 50-54: the dict returned, and which of the two divisions
\* ran with a zero divisor
RiskDict(covariance, market_variance, volatility, excess_return) ==
    [ret |-> [kind |-> "dict",
              beta |-> Beta(covariance, market_variance),
              volatility |-> volatility,
              sharpe |-> Sharpe(excess_return, volatility)],
     divided |->
        (IF BetaGuard(market_variance) /\ IsZero(market_variance)
         THEN {"beta"} ELSE {})
        \cup
        (IF SharpeGuard(volatility) /\ IsZero(volatility)
         THEN {"sharpe"} ELSE {})]

\* lines 37-54 on the aligned frame
RiskMetrics(df) ==
    RiskDict(cov(Col(df, "Stock"), Col(df, "Market")),
             var(Col(df, "Market")),
             Volatility(std(Col(df, "Stock"))),
             ExcessReturn(mean(Col(df, "Stock"))))

---------------------------------------------------------------------------
(* Python values of the raw news records.  A dict is a record of its keys;   *)
(* a key the dict lacks holds Absent.  A url block is [url, other]: its      *)
(* 'url' entry and whether it carries any other key.                         *)

Absent == [k |-> "absent"]
PyNone == [k |-> "none"]
Str(s) == [k |-> "str", s |-> s]

UrlBlock(url, other) == [k |-> "dict", url |-> url, other |-> other]

\* the values a record may carry under clickThroughUrl / canonicalUrl:
\* no key, null, {}, a block without 'url', a block with a url
UrlBlocks(u) ==
    {Absent, PyNone, UrlBlock(Absent, FALSE), UrlBlock(Absent, TRUE),
     UrlBlock(Str(u), FALSE)}

Providers ==
    {Absent, PyNone, [k |-> "dict", displayName |-> Absent],
     [k |-> "dict", displayName |-> Str("Reuters")]}

Contents ==
    { [k |-> "dict", title |-> t, clickThroughUrl |-> c, canonicalUrl |-> n,
       provider |-> p] :
         t \in {Absent, PyNone, Str("Headline")},
         c \in UrlBlocks("https://click"),
         n \in UrlBlocks("https://canonical"),
         p \in Providers }

Item(content) == [k |-> "dict", content |-> content]

RawItems == {Item(c) : c \in Contents \cup {Absent, PyNone}}

\* a well-formed record
GoodItem ==
    Item([k |-> "dict", title |-> Str("Headline"),
          clickThroughUrl |-> UrlBlock(Str("https://click"), FALSE),
          canonicalUrl |-> UrlBlock(Str("https://canonical"), FALSE),
          provider |-> [k |-> "dict", displayName |-> Str("Reuters")]])

\* the records the longer feeds are built from
CoreItems ==
    { GoodItem,
      Item(PyNone),
      Item(Absent),
      Item([GoodItem.content EXCEPT !.clickThroughUrl = UrlBlock(Absent, TRUE)]),
      Item([GoodItem.content EXCEPT !.provider = PyNone]) }

SeqsUpTo(S, n) == UNION {[1..m -> S] : m \in 0..n}

\* tick_obj.news: every feed of up to MaxNews core records, and every
\* single-record feed
NewsFeeds == SeqsUpTo(CoreItems, MaxNews) \cup {<<r>> : r \in RawItems}

\* line 56: limit=3
DefaultLimit == 3

\* bool(x) of a value that is None, a str or a dict
Truthy(x) ==
    CASE x.k = "none" -> FALSE
      [] x.k = "str"  -> x.s # ""
      [] x.k = "dict" -> x.url # Absent \/ x.other

\* d.get(key) / d.get(key, default) on a dict d
Get(d, key, default) == IF d[key] = Absent THEN default ELSE d[key]

\* {} as the default of .get: a dict that has none of the keys read from it
EmptyDict ==
    [k |-> "dict", title |-> Absent, clickThroughUrl |-> Absent,
     canonicalUrl |-> Absent, provider |-> Absent, displayName |-> Absent]

\* lines 64-71: one raw record to one article; calling .get on None raises
Article(item) ==
    LET content == Get(item, "content", EmptyDict)
    IN  IF content.k # "dict" THEN [exc |-> "AttributeError", article |-> PyNone]
        ELSE
        LET click    == Get(content, "clickThroughUrl", PyNone)
            url_data == IF Truthy(click) THEN click
                        ELSE Get(content, "canonicalUrl", PyNone)
            provider == Get(content, "provider", EmptyDict)
        IN  IF provider.k # "dict" THEN [exc |-> "AttributeError", article |-> PyNone]
            ELSE [exc |-> "",
                  article |->
                    [title     |-> Get(content, "title", Str("No Title")),
                     link      |-> IF Truthy(url_data)
                                   THEN Get(url_data, "url", Str("#"))
                                   ELSE Str("#"),
                     publisher |-> Get(provider, "displayName", Str("Unknown"))]]

\* raw_news[:limit]
Slice(xs, n) == SubSeq(xs, 1, IF Len(xs) < n THEN Len(xs) ELSE n)

\* lines 60-74: the loop stops at the first record that raises
RECURSIVE Loop(_, _)
Loop(items, clean_news) ==
    IF Len(items) = 0 THEN [exc |-> "", items |-> clean_news]
    ELSE LET a == Article(Head(items))
         IN  IF a.exc # "" THEN [exc |-> a.exc, items |-> clean_news]
             ELSE Loop(Tail(items), Append(clean_news, a.article))

CleanNews(feed, lim) ==
    IF Len(feed) > 0 THEN Loop(Slice(feed, lim), <<>>)
    ELSE [exc |-> "", items |-> <<>>]

---------------------------------------------------------------------------
(* main.py: the Streamlit script.  Streamlit runs the whole script again on *)
(* every widget interaction; run_btn is True only in the run a click on     *)
(* Run Analysis starts.                                                     *)

\* lines 41-42
default_start == Today - TrailingDays
default_end   == Today

\* str.upper() on the texts typed into Ticker Symbol
TickerInputs == {"", "aapl"}
upper(t) == IF t = "aapl" THEN "AAPL" ELSE t

\* line 39: the share counts entered
ShareInputs == {1, 10}

\* line 43: st.date_input returns a tuple of 0..2 dates, a pair in order
RangeDates == {default_start, MaxDate, Today}
DateRanges ==
    {<<>>, <<MaxDate>>} \cup {p \in RangeDates \X RangeDates : p[1] <= p[2]}

\* the names bound in main.py's namespace when line 78 runs: its imports
\* (lines 1-5) and the assignments of lines 23-76
BoundNames ==
    {"st", "yf", "pd", "go", "datetime", "timedelta", "col_logo", "col_nav",
     "col_input", "col_result", "ticker", "shares", "default_start",
     "default_end", "date_range", "run_btn", "start_d", "end_d", "data",
     "current_price", "start_price", "profit", "pct_change"}

\* the free names lines 78-93 read, in the order they are read
NamesRead == <<"stock_data", "market_data", "np">>

\* the first name read that is not bound ("" if all are)
FirstUnbound ==
    LET miss == {i \in 1..Len(NamesRead) : NamesRead[i] \notin BoundNames}
    IN  IF miss = {} THEN ""
        ELSE NamesRead[CHOOSE i \in miss : \A j \in miss : i <= j]

\* lines 54-57: the window of the download
Window(dr) == IF Len(dr) = 2 THEN dr ELSE <<default_start, default_end>>

EmptyState == [kind |-> "empty_state"]

\* lines 62-150 on the downloaded frame
Render(tk, sh, df) ==
    IF IsEmpty(df) THEN [exc |-> "", dl |-> df, screen |-> [kind |-> "no_data"]]
    ELSE LET flat          == droplevel(df)
             current_price == flat.bars[Len(flat.bars)].close
             start_price   == flat.bars[1].close
             profit        == (current_price - start_price) * sh
             pct           == RMul(Rat(current_price - start_price, start_price),
                                   <<100, 1>>)
         IN  IF FirstUnbound # ""
             THEN [exc |-> "NameError", dl |-> flat,
                   screen |-> [kind |-> "error", name |-> FirstUnbound]]
             ELSE [exc |-> "", dl |-> flat,
                   screen |-> [kind |-> "rendered", value |-> current_price * sh,
                               profit |-> profit, pct_change |-> pct,
                               close |-> current_price]]

\* lines 152-165: nothing is analysed
Blank ==
    /\ fetch' = <<>>
    /\ dl' = EmptyFrame
    /\ exc' = ""
    /\ screen' = EmptyState

\* one run of the script that no click started
Idle == run_btn' = FALSE /\ Blank

\* the user types a ticker
EnterTicker ==
    /\ proc = "dashboard"
    /\ \E t \in TickerInputs : ticker' = upper(t)
    /\ Idle
    /\ UNCHANGED <<proc, stock_data, market_data, last, data, ret, divided,
                   raw_news, limit, shares, date_range>>

\* the user changes the number of shares
SetShares ==
    /\ proc = "dashboard"
    /\ \E n \in ShareInputs : shares' = n
    /\ Idle
    /\ UNCHANGED <<proc, stock_data, market_data, last, data, ret, divided,
                   raw_news, limit, ticker, date_range>>

\* the user picks dates in Analysis Period
PickDates ==
    /\ proc = "dashboard"
    /\ \E dr \in DateRanges : date_range' = dr
    /\ Idle
    /\ UNCHANGED <<proc, stock_data, market_data, last, data, ret, divided,
                   raw_news, limit, ticker, shares>>

\* the user clicks Run Analysis: lines 50-165
ClickRun ==
    /\ proc = "dashboard"
    /\ run_btn' = TRUE
    /\ IF ticker # ""
       THEN /\ fetch' = Window(date_range)
            /\ \E mi \in BOOLEAN :
               \E df \in download(Window(date_range)[1], Window(date_range)[2], mi) :
                  LET out == Render(ticker, shares, df)
                  IN  /\ dl' = out.dl
                      /\ exc' = out.exc
                      /\ screen' = out.screen
       ELSE Blank
    /\ UNCHANGED <<proc, stock_data, market_data, last, data, ret, divided,
                   raw_news, limit, ticker, shares, date_range>>

\* Asset.__init__ / the first run of main.py
Init ==
    /\ proc \in {"prices", "news", "dashboard"}
    /\ stock_data = EmptyFrame
    /\ market_data = EmptyFrame
    /\ last = "__init__"
    /\ data = <<>>
    /\ ret = None
    /\ exc = ""
    /\ divided = {}
    /\ raw_news = <<>>
    /\ limit = DefaultLimit
    /\ ticker = ""
    /\ shares = 10
    /\ date_range = <<default_start, default_end>>
    /\ run_btn = FALSE
    /\ fetch = <<>>
    /\ dl = EmptyFrame
    /\ screen = EmptyState

\* Asset.get_data(start_date, end_date).  The call overwrites both frames, so
\* a second call reaches no frames the first cannot: the client fetches once.
get_data ==
    /\ proc = "prices"
    /\ fetch = <<>>
    /\ \E start_date \in 1..Today, end_date \in 1..Today, mi \in BOOLEAN :
       LET frames == download(start_date, end_date, mi)
       IN  \E s \in frames, m \in frames :
          /\ stock_data' = droplevel(s)
          /\ market_data' = droplevel(m)
          /\ fetch' = <<start_date, end_date>>
          /\ ret' = [kind |-> "frame", frame |-> droplevel(s)]
    /\ last' = "get_data"
    /\ data' = <<>>
    /\ divided' = {}
    /\ exc' = ""
    /\ UNCHANGED <<proc, raw_news, limit, dashVars>>

\* Asset.calculate_risk_metrics().  The call writes nothing to the Asset, so
\* calling it again on the same frames returns the same: it is called once
\* per pair of frames.
calculate_risk_metrics ==
    /\ proc = "prices"
    /\ last # "calculate_risk_metrics"
    /\ last' = "calculate_risk_metrics"
    /\ exc' = ""
    /\ IF NoData(stock_data, market_data)
       THEN /\ ret' = None
            /\ data' = <<>>
            /\ divided' = {}
       ELSE \E df \in {Aligned(stock_data, market_data, sorted) : sorted \in BOOLEAN} :
            LET out == RiskMetrics(df)
            IN  /\ data' = df
                /\ ret' = out.ret
                /\ divided' = out.divided
    /\ UNCHANGED <<proc, stock_data, market_data, raw_news, limit, fetch, dashVars>>

\* Asset.get_news(limit).  The call reads nothing an earlier call wrote, so a
\* second call reaches no result the first cannot: the client asks once.
get_news ==
    /\ proc = "news"
    /\ last = "__init__"
    /\ \E feed \in NewsFeeds, lim \in {1, DefaultLimit} :
          /\ raw_news' = feed
          /\ limit' = lim
          /\ LET out == CleanNews(feed, lim)
             IN  /\ exc' = out.exc
                 /\ ret' = IF out.exc = "" THEN [kind |-> "list", items |-> out.items]
                           ELSE [kind |-> "raised"]
    /\ last' = "get_news"
    /\ UNCHANGED <<proc, stock_data, market_data, data, divided, fetch, dashVars>>

Next ==
    \/ get_data
    \/ calculate_risk_metrics
    \/ get_news
    \/ EnterTicker
    \/ SetShares
    \/ PickDates
    \/ ClickRun

Spec == Init /\ [][Next]_vars

---------------------------------------------------------------------------
(* Claims about Asset.calculate_risk_metrics *)

Calculated == proc = "prices" /\ last = "calculate_risk_metrics"

\* the dates a frame has a day-over-day return for: every bar but the first
ReturnDates(df) == {df.bars[i].date : i \in 2..Len(df.bars)}

SharedDates == ReturnDates(stock_data) \cap ReturnDates(market_data)

MarketCol == Col(data, "Market")
StockCol  == Col(data, "Stock")

\* C1: when the two return series share no date, calculate_risk_metrics
\* returns None and never a record of beta, volatility and sharpe.
C1_NoMetricsWithoutAlignedReturns ==
    (Calculated /\ SharedDates = {}) => ret = None

\* C2: when the aligned returns hold a single row (as for closes 100 -> 110
\* against 50 -> 55), the returned beta is 1.0.
C2_SingleRowBetaIsOne ==
    (Calculated /\ Cardinality(SharedDates) = 1)
        => (ret.kind = "dict" /\ ret.beta = Num(ROne))

\* C5: when the variance of the aligned market returns is 0 the returned beta
\* is exactly 1.0 and no division by the variance ran; otherwise beta is
\* cov(stock, market) / var(market).
C5_BetaZeroVarianceConvention ==
    (Calculated /\ ret.kind = "dict") =>
        LET mv == var(MarketCol)
            cv == cov(StockCol, MarketCol)
        IN  /\ IsZero(mv) => (ret.beta = Num(ROne) /\ "beta" \notin divided)
            /\ (IsNum(mv) /\ ~IsZero(mv)) =>
                   (IsNum(ret.beta) /\ RMul(ret.beta.q, mv.q) = cv.q
                                    /\ ret.beta.r = ROne)
            /\ IsNaN(mv) => IsNaN(ret.beta)

\* C5 witness: a benchmark with a constant close over 3 or more bars, a stock
\* whose returns vary, and beta returned as 1.0
C5_Witness ==
    /\ Calculated
    /\ Len(market_data.bars) >= 3
    /\ \A i \in 1..Len(market_data.bars) :
          market_data.bars[i].close = market_data.bars[1].close
    /\ Len(data) >= 2
    /\ IsZero(var(MarketCol))
    /\ ~IsZero(var(StockCol))
    /\ ret.kind = "dict" /\ ret.beta = Num(ROne)

\* C6: when the computed volatility is 0 the returned sharpe is exactly 0 and
\* no division by the volatility ran; otherwise sharpe is
\* (mean(stock) * 252 - 0.04) / (volatility / 100).
C6_SharpeZeroVolatilityConvention ==
    (Calculated /\ ret.kind = "dict") =>
        LET vol    == ret.volatility
            excess == FSub(FMul(mean(StockCol), Num(<<252, 1>>)), Num(<<1, 25>>))
        IN  /\ IsZero(vol) => (ret.sharpe = Num(RZero) /\ "sharpe" \notin divided)
            /\ (IsNum(vol) /\ ~IsZero(vol)) =>
                   (IsNum(ret.sharpe)
                    /\ FMul(ret.sharpe, FDiv(vol, Num(<<100, 1>>))) = excess)
            /\ IsNaN(vol) => IsNaN(ret.sharpe)

\* C6 witness: two or more aligned rows with constant stock returns, so that
\* the volatility is 0, and sharpe returned as 0
C6_Witness ==
    /\ Calculated
    /\ Len(data) >= 2
    /\ ret.kind = "dict"
    /\ IsZero(ret.volatility)
    /\ ret.sharpe = Num(RZero)
    /\ ~IsZero(var(MarketCol))

\* C8: the aligned frame holds exactly the dates both return series have,
\* each once, every row with both returns present, in ascending date order.
C8_AlignedIsInnerJoinOnDate ==
    (Calculated /\ ~(IsEmpty(stock_data) \/ IsEmpty(market_data))) =>
        /\ {data[i].date : i \in 1..Len(data)} = SharedDates
        /\ Len(data) = Cardinality(SharedDates)
        /\ \A i \in 1..Len(data) : IsNum(data[i].Stock) /\ IsNum(data[i].Market)
        /\ \A i \in 1..Len(data) - 1 : data[i].date < data[i+1].date

\* C8 witness: each return series has a date the other lacks, and they share
\* at least one
C8_Witness ==
    /\ Calculated
    /\ ReturnDates(stock_data) \ ReturnDates(market_data) # {}
    /\ ReturnDates(market_data) \ ReturnDates(stock_data) # {}
    /\ Len(data) >= 1
    /\ {data[i].date : i \in 1..Len(data)} = SharedDates

---------------------------------------------------------------------------
(* Claims about Asset.get_news *)

NewsCalled == proc = "news" /\ last = "get_news"

Min(a, b) == IF a < b THEN a ELSE b

IsNullContent(item) == item.content = PyNone

HasUrl(block) == block.k = "dict" /\ block.url.k = "str"

\* the link the priority chain click-through url, canonical url, "#" selects
ChainLink(content) ==
    IF HasUrl(content.clickThroughUrl) THEN content.clickThroughUrl.url
    ELSE IF HasUrl(content.canonicalUrl) THEN content.canonicalUrl.url
    ELSE Str("#")

\* C3: get_news(limit=3) never raises and returns one NewsItem for each of the
\* first 3 raw records, each with a title, a link and a publisher, a record
\* with a null content block giving "No Title" / "#" / "Unknown".
C3_MalformedRecordNeverAborts ==
    (NewsCalled /\ limit = DefaultLimit) =>
        /\ exc = ""
        /\ ret.kind = "list"
        /\ Len(ret.items) = Min(DefaultLimit, Len(raw_news))
        /\ \A i \in 1..Len(ret.items) :
              /\ ret.items[i].title.k = "str"
              /\ ret.items[i].link.k = "str"
              /\ ret.items[i].publisher.k = "str"
              /\ IsNullContent(raw_news[i]) =>
                    ret.items[i] = [title |-> Str("No Title"), link |-> Str("#"),
                                    publisher |-> Str("Unknown")]

\* C7: the link of every NewsItem is the click-through url when the record
\* has one, otherwise the canonical url when it has one, and "#" only when it
\* has neither.
C7_LinkPriorityChain ==
    (NewsCalled /\ exc = "") =>
        \A i \in 1..Len(ret.items) :
            raw_news[i].content.k = "dict" =>
                ret.items[i].link = ChainLink(raw_news[i].content)

---------------------------------------------------------------------------
(* Claims about the dashboard run, and about empty price data *)

\* the script ran the analysis block: a click with a ticker entered
Ran == proc = "dashboard" /\ run_btn /\ ticker # ""

DefaultWindow == <<Today - 365, Today>>

\* a range that is not a pair of dates, or whose start is not before its end
Degenerate(dr) == Len(dr) # 2 \/ ~(dr[1] < dr[2])

\* C4: with an empty stored stock frame calculate_risk_metrics returns None
\* without raising; in the dashboard an empty download ends in the
\* "No data found" state, with no metrics shown and no exception.
C4_EmptyPricesAreNoData ==
    /\ (Calculated /\ IsEmpty(stock_data)) => (ret = None /\ exc = "")
    /\ (Ran /\ IsEmpty(dl)) => (screen = [kind |-> "no_data"] /\ exc = "")

\* C4 witness: the stock download came back empty, the benchmark did not,
\* and calculate_risk_metrics returned None
C4_Witness ==
    /\ Calculated
    /\ fetch # <<>>
    /\ IsEmpty(stock_data)
    /\ ~IsEmpty(market_data)
    /\ ret = None
    /\ exc = ""

\* C9: a run whose date range is single-ended or has its start not strictly
\* before its end issues its price fetch for the default window of 365 days
\* ending today, not for the range supplied.
C9_DegenerateRangeUsesDefaultWindow ==
    (Ran /\ Degenerate(date_range)) => fetch = DefaultWindow

\* C10: a run with a ticker and a non-empty download ends in the rendered
\* state showing current value = lastClose * shares, net profit/loss =
\* (lastClose - firstClose) * shares and percent change =
\* (lastClose - firstClose) / firstClose * 100, not in the error state.
C10_RunRendersForValidData ==
    (Ran /\ ~IsEmpty(dl)) =>
        LET lastClose  == dl.bars[Len(dl.bars)].close
            firstClose == dl.bars[1].close
        IN  /\ screen.kind = "rendered"
            /\ exc = ""
            /\ screen.value = lastClose * shares
            /\ screen.profit = (lastClose - firstClose) * shares
            /\ screen.pct_change = Rat((lastClose - firstClose) * 100, firstClose)

====
